---------------------------- MODULE Spec2Model ----------------------------
(***************************************************************************)
(* Model of the mirroring VFS shim of src/sqlite3/vfsmirror.c.             *)
(*                                                                         *)
(* One shim file handle (vfsmirror_file) is modelled together with the     *)
(* two underlying backend handles pReal[0] (primary) and pReal[1]          *)
(* (replica), the contents of the two regular files behind them, and the   *)
(* process-wide configuration (zSlaveDir, registered).  The backend        *)
(* (pRoot and the sqlite3_io_methods of its handles) is the environment:   *)
(* every status it returns is a nondeterministic input.                    *)
(*                                                                         *)
(* Strings are sequences of one-character strings.  Status codes are the   *)
(* symbolic names of the sqlite3 result codes.                             *)
(***************************************************************************)
EXTENDS Integers, Sequences, FiniteSets, TLC

(***************************************************************************)
(* Bounds of the model.                                                    *)
(***************************************************************************)
MaxOfst == 1          \* largest write offset tried
MaxAmt  == 2          \* largest write length tried
MaxSize == 2          \* largest file size tried
MaxContexts == 2      \* execution contexts writing at the same time

(***************************************************************************)
(* Program constants.                                                      *)
(***************************************************************************)
NAME_MAX == 260       \* size of zSlaveDir, zFname2 and tmpPath
RetryInit == 10       \* "retry = 10" in vfsmirrorOpen

SQLITE_OK == "SQLITE_OK"
NullName == "(null)"        \* a null zOldVfsName
NORETURN  == "NORETURN"     \* marks a backend dispatch that never returned

Min(a, b) == IF a < b THEN a ELSE b

(***************************************************************************)
(* RETURN_CODE(RC1, RC2): the reconciliation macro.                        *)
(***************************************************************************)
RETURN_CODE_primaryOnly(RC1, RC2) == RC1

RETURN_CODE(RC1, RC2) ==
    IF RC1 = RC2 THEN RC1 ELSE IF RC1 = SQLITE_OK THEN RC2 ELSE RC1

(***************************************************************************)
(* fileTail(z): pointer to the tail of the pathname.  C index i is the     *)
(* 1-based index i+1 here, so z[i - 1] of the source is z[i].  The source  *)
(* starts the scan at strlen(z) - 1 and the result is the suffix from i.   *)
(* Callers only pass non-empty names.                                      *)
(***************************************************************************)
RECURSIVE fileTailScan(_, _)
fileTailScan(z, i) ==
    IF i > 0 /\ z[i] # "/" /\ z[i] # "\\" THEN fileTailScan(z, i - 1) ELSE i

fileTail_afterFirstSeparator(z) ==
    IF \E i \in 1..Len(z) : z[i] = "/" \/ z[i] = "\\"
    THEN LET k == CHOOSE i \in 1..Len(z) :
                    /\ (z[i] = "/" \/ z[i] = "\\")
                    /\ \A j \in 1..(i - 1) : z[j] # "/" /\ z[j] # "\\"
         IN SubSeq(z, k + 1, Len(z))
    ELSE z

fileTail(z) == SubSeq(z, fileTailScan(z, Len(z) - 1) + 1, Len(z))

(***************************************************************************)
(* strncpy / strncat as used by vfsmirrorReplicaPath: at most n characters *)
(* of the source are copied or appended.                                   *)
(***************************************************************************)
strncpy(src, n) == SubSeq(src, 1, Min(Len(src), n))
strncat(dest, src, n) == dest \o SubSeq(src, 1, Min(Len(src), n))

(***************************************************************************)
(* A string that does not fit, with its terminator, in the size bytes of   *)
(* the buffer it was built in has been written past the buffer's end.      *)
(***************************************************************************)
Overflows(str, size) == Len(str) + 1 > size

(***************************************************************************)
(* Inputs drawn by the environment.  The engine and the backend are run    *)
(* in one of eight scenarios, fixed at the start (variable env):             *)
(*   "dispatch"  every method of an open handle, every kind of open        *)
(*               request and every backend status, on one-byte files;      *)
(*   "data"      open, write, truncate and close of a mirrored main        *)
(*               database, with the bytes of both files;                   *)
(*   "paths"     open, close and delete with every path name, under        *)
(*               several replica directories and one registered shim;      *)
(*   "config"    set_mirror_directory and vfsmirror_register with every    *)
(*               argument;                                                 *)
(*   "names"     open, close and delete under one replica directory, with  *)
(*               path names that end in a separator as well;               *)
(*   "caps"      vfsmirror_register over backends of every version that    *)
(*               lack some of the optional methods;                        *)
(*   "threads"   several execution contexts inside vfsmirrorWrite on one   *)
(*               mirrored handle at the same time;                         *)
(*   "handles"   open and close over backend handles whose method table    *)
(*               has any interface version, with the output flags the      *)
(*               backend's opens report.                                   *)
(***************************************************************************)
Scenarios ==
    {"dispatch", "data", "paths", "config", "names", "caps", "threads",
     "handles"}

AllPathNames ==
    { <<"t">>,
      <<"/", "a", "/", "t">>,
      <<"/", "b", "/", "t">>,
      <<"a", "\\", "u">> }

SeparatorEndedPathNames ==
    { <<"/", "a", "/">>,
      <<"/", "b", "/">>,
      <<"a", "\\">> }

TempName == <<"<", "t", "e", "m", "p", ">">>

AllOpenFlagSets ==
    { {"READWRITE", "MAIN_DB"},
      {"READWRITE", "MAIN_JOURNAL"},
      {"READWRITE", "TEMP_DB"},
      {"READWRITE", "WAL"} }

MirrorFlags == {"MAIN_DB", "MAIN_JOURNAL"}

ShmOps == {"xShmMap", "xShmLock", "xShmBarrier", "xShmUnmap"}

LongDirName == [ i \in 1..NAME_MAX |-> IF i = 1 THEN "/" ELSE "d" ]
DeepDirName == [ i \in 1..(NAME_MAX - 2) |-> IF i = 1 THEN "/" ELSE "d" ]

AllDirNames ==
    { <<>>,
      <<"/">>,
      <<"d">>,
      <<"/", "d">>,
      <<"/", "d", "/">>,
      <<"/", "e", "\\", "/">>,
      <<"/", "x">>,
      <<"/", "d", "%", "%">>,
      <<"/", "d", "%", "d">>,
      LongDirName }

ExistingDirs ==
    { <<"/", "d">>, <<"/", "e">>, <<"/">>, <<"/", "d", "%">>, DeepDirName }

(***************************************************************************)
(* What a conversion specification without an argument can leave in the    *)
(* output of snprintf: nothing, some digits, or no return at all.          *)
(***************************************************************************)
ConversionOutcomes == { <<>>, <<"7">>, <<"NORETURN">> }

AllWriteData == UNION { [1..n -> {1}] : n \in 1..MaxAmt }

(***************************************************************************)
(* The methods of a sqlite3_vfs that vfsmirror_register looks at, by the   *)
(* iVersion of the structure that has the field, and the backends the      *)
(* shim is registered over: a backend has a subset of the methods of its   *)
(* version.                                                                *)
(***************************************************************************)
DlMethods == {"xDlOpen", "xDlError", "xDlSym", "xDlClose"}
TimeMethods == {"xRandomness", "xSleep", "xCurrentTime"}
SystemCallMethods == {"xSetSystemCall", "xGetSystemCall", "xNextSystemCall"}

MethodsOfVersion(v) ==
    DlMethods \cup TimeMethods \cup {"xGetLastError"}
      \cup (IF v >= 2 THEN {"xCurrentTimeInt64"} ELSE {})
      \cup (IF v >= 3 THEN SystemCallMethods ELSE {})

Backend(v, methods) ==
    [ zName |-> "unix", shim |-> FALSE, pRootVfs |-> "",
      iVersion |-> v, methods |-> methods ]

AllBackends ==
    { Backend(v, MethodsOfVersion(v) \ lacking) :
        v \in 1..3,
        lacking \in { {}, DlMethods, {"xRandomness"}, {"xSleep", "xCurrentTime"},
                      {"xGetLastError", "xCurrentTimeInt64"},
                      SystemCallMethods, MethodsOfVersion(3) } }

VARIABLES
    env,           \* the scenario the engine and the backend are run in
    zSlaveDir,     \* static char zSlaveDir[NAME_MAX]
    registered,    \* static int registered
    vfsList,       \* the registry of sqlite3_vfs objects, default first
    hState,        \* life cycle of the handle as the engine sees it
    pc,            \* position of the thread inside the shim
    p,             \* the vfsmirror_file
    loc,           \* locals of the vfsmirrorOpen call in progress
    fileP,         \* bytes of the file behind pReal[0]
    fileR,         \* bytes of the file behind pReal[1]
    hist,          \* history of the handle since its open
    last,          \* the last shim call and the backend calls it made
    ctx            \* the execution contexts inside vfsmirrorWrite

vars == <<env, zSlaveDir, registered, vfsList, hState, pc, p, loc,
          fileP, fileR, hist, last, ctx>>

PathNames ==
    CASE env = "paths" -> AllPathNames
      [] env = "names" -> AllPathNames \cup SeparatorEndedPathNames
      [] OTHER -> { <<"/", "a", "/", "t">> }
OpenFlagSets ==
    IF env = "dispatch" THEN AllOpenFlagSets ELSE { {"READWRITE", "MAIN_DB"} }
ShmSets == IF env \in {"dispatch", "handles"} THEN { {}, ShmOps } ELSE { {} }
HandleVersions == IF env = "handles" THEN 1..3 ELSE {3}
OverflowOutcomes == IF env = "handles" THEN BOOLEAN ELSE {FALSE}
OutFlagSets ==
    IF env = "handles" THEN { <<"READWRITE">>, <<"READONLY">> }
    ELSE { <<"READWRITE">> }
DirNames ==
    CASE env = "config" -> AllDirNames
      [] env = "paths" -> { <<"/", "d", "/">>, <<"/", "e", "\\", "/">>, <<"/", "x">> }
      [] env = "handles" -> { <<"/", "d", "/">>, DeepDirName }
      [] OTHER -> { <<"/", "d", "/">> }
OldVfsNames == IF env = "config" THEN {NullName, "unix", "nope"} ELSE {NullName}
MakeDefaults == IF env = "config" THEN BOOLEAN ELSE {TRUE}
Errs == IF env = "dispatch" THEN {"SQLITE_IOERR", "SQLITE_FULL"}
        ELSE {"SQLITE_IOERR"}
Status == {SQLITE_OK} \cup Errs
CloseStatus == IF env \in {"dispatch", "data"} THEN Status ELSE {SQLITE_OK}
ConversionChoices(d) ==
    IF \E i \in 1..Len(d) : d[i] = "%" THEN ConversionOutcomes ELSE { <<>> }
OutOfBoundsChoices(d) ==
    IF \A i \in 1..Len(d) : d[i] \in {"/", "\\"} THEN BOOLEAN ELSE {FALSE}
WriteData == IF env = "data" THEN AllWriteData ELSE { <<1>> }
WriteOfsts == IF env = "data" THEN 0..MaxOfst ELSE {0}
Backends ==
    IF env = "caps" THEN AllBackends ELSE { Backend(3, MethodsOfVersion(3)) }
TruncSizes == IF env = "data" THEN 0..MaxSize ELSE {0}
DiskContents == IF env = "data" THEN { <<>>, <<1>> } ELSE { <<>> }

NoReal ==
    [ present |-> FALSE, methods |-> FALSE, opened |-> FALSE, nClose |-> 0,
      vfs |-> "", flags |-> {} ]

NoFile ==
    [ pInfo |-> "", hasName |-> FALSE, zName |-> <<>>, flags |-> {},
      zFName |-> <<>>, zFname2 |-> <<>>,
      pMethods |-> FALSE, iVersion |-> 0, shm |-> {},
      pSub |-> [ iVersion |-> 0, shm |-> {} ],
      real0 |-> NoReal, real1 |-> NoReal ]

NoLoc ==
    [ rc |-> SQLITE_OK, rc1 |-> SQLITE_OK, retry |-> 0,
      nAttempts |-> 0, nSleeps |-> 0, attempts |-> <<>>,
      pOutFlags |-> <<>>, primaryOutFlags |-> <<>> ]

NoHist ==
    [ replicaOpened |-> FALSE, replicaFailed |-> FALSE,
      eqAtOpen |-> FALSE, allOK |-> FALSE, dirAtOpen |-> <<>> ]

NoLast ==
    [ op |-> "none", args |-> <<>>, ret |-> SQLITE_OK, calls |-> <<>>,
      open |-> NoLoc, out |-> <<>> ]

(***************************************************************************)
(* The execution contexts that call vfsmirrorWrite on the one handle at    *)
(* the same time: where each is, which of them made the last xWrite on     *)
(* pReal[0] and on pReal[1] (0: none), and whether two calls were ever in  *)
(* progress together.                                                      *)
(***************************************************************************)
Contexts == 1..MaxContexts

NoCtx ==
    [ at |-> [ t \in Contexts |-> "out" ],
      lastP |-> 0, lastR |-> 0, concurrent |-> FALSE ]

Init ==
    /\ env \in Scenarios
    /\ zSlaveDir = <<>>
    /\ registered = 0
    /\ vfsList \in { <<b>> : b \in Backends }
    /\ hState = "none"
    /\ pc = "idle"
    /\ p = NoFile
    /\ loc = NoLoc
    /\ fileP = <<>>
    /\ fileR = <<>>
    /\ hist = NoHist
    /\ last = NoLast
    /\ ctx = NoCtx

(***************************************************************************)
(* vfsmirrorReplicaPath(dest, sourcePath, size): the content left in dest. *)
(***************************************************************************)
vfsmirrorReplicaPath(sourcePath, size) ==
    strncat(strncat(strncpy(zSlaveDir, size), <<"\\">>, size),
            fileTail(sourcePath), size)

(***************************************************************************)
(* The engine may start a call only when no call is in progress.           *)
(***************************************************************************)
Idle == pc = "idle"

(***************************************************************************)
(* xOpen and xDelete of the shim are reached through a registered shim.    *)
(***************************************************************************)
ShimRegistered == \E i \in 1..Len(vfsList) : vfsList[i].shim

(***************************************************************************)
(* pInfo->pRootVfs of the shim the engine calls: the first shim of the     *)
(* registry (the default one, or the one found under the shim's name).     *)
(***************************************************************************)
pRootVfs ==
    LET i == CHOOSE i \in 1..Len(vfsList) :
                /\ vfsList[i].shim
                /\ \A j \in 1..(i - 1) : ~vfsList[j].shim
    IN vfsList[i].pRootVfs

(***************************************************************************)
(* The flags argument of the replica's pRoot->xOpen: the caller's flags.   *)
(***************************************************************************)
ReplicaOpenFlags(flags) == flags

(***************************************************************************)
(* The return of vfsmirrorOpen: RETURN_CODE(rc, rc1).  The engine keeps a  *)
(* handle whose pMethods was installed: it uses it when xOpen returned     *)
(* SQLITE_OK and only closes it otherwise.                                 *)
(***************************************************************************)
OpenResult(f, l) ==
    LET ret == RETURN_CODE(l.rc, l.rc1) IN
    /\ last' = [ op |-> "xOpen", args |-> <<>>, ret |-> ret, calls |-> <<>>,
                 open |-> l, out |-> l.pOutFlags ]
    /\ loc' = NoLoc
    /\ hState' = IF f.pMethods
                 THEN (IF ret = SQLITE_OK THEN "open" ELSE "failed")
                 ELSE "none"
    /\ pc' = "idle"

(***************************************************************************)
(* vfsmirrorOpen up to the retry loop: the primary xOpen, the installation *)
(* of the shim's method table and the mirror decision.  m0 says whether    *)
(* a failing backend xOpen left pMethods set, ver the iVersion of the      *)
(* backend's table pSub, sub which shared-memory fields of pSub read as    *)
(* non-null, o0 what the primary xOpen left in *pOutFlags, disk what the   *)
(* primary file holds.  A table of iVersion 1 ends before the xShm fields: *)
(* reading them yields arbitrary values, and the backend provides none.    *)
(* When the replica path was written past the end of p->zFname2 (over      *)
(* pReal[0]) the call either goes on or (smash) never returns.             *)
(***************************************************************************)
pNewVersion(pSubVersion) == 2

pNewShm(iVersion, sub) == IF iVersion >= 2 THEN sub ELSE {}

pSubShm(ver, sub) == IF ver >= 2 THEN sub ELSE {}

MirrorDecision_flagsOnly(hasName, rc, flags) ==
    flags \cap MirrorFlags # {}

MirrorDecision_ignoresPrimary(hasName, rc, flags) ==
    hasName /\ flags \cap MirrorFlags # {}

MirrorDecision(hasName, rc, flags) ==
    hasName /\ rc = SQLITE_OK /\ flags \cap MirrorFlags # {}

vfsmirrorOpen(hasName, zName, flags, rc, m0, ver, sub, o0, disk, smash) ==
    /\ Idle
    /\ ShimRegistered
    /\ hState = "none"
    /\ rc = SQLITE_OK => m0
    /\ LET zFName == IF hasName THEN fileTail(zName) ELSE TempName
           real0  == [ present |-> TRUE, methods |-> m0,
                       opened |-> (rc = SQLITE_OK), nClose |-> 0,
                       vfs |-> pRootVfs, flags |-> flags ]
           mirror == MirrorDecision(hasName, rc, flags)
           f == [ pInfo |-> pRootVfs,
                  hasName |-> hasName,
                  zName |-> IF hasName THEN zName ELSE <<>>,
                  flags |-> flags,
                  zFName |-> zFName,
                  zFname2 |-> IF mirror
                              THEN vfsmirrorReplicaPath(zFName, NAME_MAX)
                              ELSE <<>>,
                  pMethods |-> m0,
                  iVersion |-> IF m0 THEN pNewVersion(ver) ELSE 0,
                  shm |-> IF m0 THEN pNewShm(pNewVersion(ver), sub) ELSE {},
                  pSub |-> IF m0
                           THEN [ iVersion |-> ver, shm |-> pSubShm(ver, sub) ]
                           ELSE [ iVersion |-> 0, shm |-> {} ],
                  real0 |-> real0,
                  real1 |-> IF mirror
                            THEN [NoReal EXCEPT !.present = TRUE]
                            ELSE NoReal ]
           l == [ rc |-> rc, rc1 |-> SQLITE_OK,
                  retry |-> IF mirror THEN RetryInit ELSE 0,
                  nAttempts |-> 0, nSleeps |-> 0, attempts |-> <<>>,
                  pOutFlags |-> o0, primaryOutFlags |-> o0 ]
       IN /\ smash => (mirror /\ Overflows(f.zFname2, NAME_MAX))
          /\ p' = f
          /\ fileP' = IF rc = SQLITE_OK THEN disk ELSE <<>>
          /\ fileR' = <<>>
          /\ hist' = [ NoHist EXCEPT !.dirAtOpen = zSlaveDir ]
          /\ IF smash
             THEN /\ pc' = "crashed"
                  /\ loc' = NoLoc
                  /\ hState' = "none"
                  /\ last' = [ op |-> "xOpen", args |-> <<>>,
                               ret |-> NORETURN, calls |-> <<>>,
                               open |-> NoLoc, out |-> <<>> ]
             ELSE IF mirror
             THEN /\ pc' = "open_retry"
                  /\ loc' = l
                  /\ hState' = "none"
                  /\ last' = [ op |-> "xOpen", args |-> <<>>,
                               ret |-> NORETURN, calls |-> <<>>,
                               open |-> NoLoc, out |-> <<>> ]
             ELSE OpenResult(f, l)
    /\ UNCHANGED <<env, ctx, zSlaveDir, registered, vfsList>>

(***************************************************************************)
(* The loop condition of                                                   *)
(*   while (retry > 0 && (rc1 = xOpen(.. pReal[1] ..)) != SQLITE_OK)       *)
(***************************************************************************)
RetryGuard_offByOne(retry) == retry >= 0

RetryGuard(retry) == retry > 0

(***************************************************************************)
(* One iteration whose replica xOpen fails: sleep, retry--.  m1 says       *)
(* whether the failing xOpen left pMethods of pReal[1] set.                *)
(***************************************************************************)
vfsmirrorOpenRetryFail(rc1, m1) ==
    /\ pc = "open_retry"
    /\ RetryGuard(loc.retry)
    /\ rc1 # SQLITE_OK
    /\ loc' = [ loc EXCEPT !.rc1 = rc1,
                           !.retry = @ - 1,
                           !.nAttempts = @ + 1,
                           !.nSleeps = @ + 1,
                           !.attempts = Append(@, FALSE) ]
    /\ p' = [ p EXCEPT !.real1.methods = m1,
                       !.real1.vfs = p.pInfo,
                       !.real1.flags = ReplicaOpenFlags(p.flags) ]
    /\ UNCHANGED <<env, ctx, zSlaveDir, registered, vfsList, hState, pc, fileP, fileR, hist, last>>

(***************************************************************************)
(* The iteration whose replica xOpen returns SQLITE_OK ends the loop.  The  *)
(* replica xOpen is given the caller's pOutFlags and leaves o1 in it.      *)
(***************************************************************************)
vfsmirrorOpenRetryOk(disk, o1) ==
    /\ pc = "open_retry"
    /\ RetryGuard(loc.retry)
    /\ LET l == [ loc EXCEPT !.rc1 = SQLITE_OK,
                             !.pOutFlags = o1,
                             !.nAttempts = @ + 1,
                             !.attempts = Append(@, TRUE) ]
           f == [ p EXCEPT !.real1.methods = TRUE, !.real1.opened = TRUE,
                           !.real1.vfs = p.pInfo,
                           !.real1.flags = ReplicaOpenFlags(p.flags) ]
       IN /\ p' = f
          /\ fileR' = disk
          /\ hist' = [ replicaOpened |-> TRUE, replicaFailed |-> FALSE,
                       eqAtOpen |-> (fileP = disk), allOK |-> TRUE,
                       dirAtOpen |-> hist.dirAtOpen ]
          /\ OpenResult(f, l)
    /\ UNCHANGED <<env, ctx, zSlaveDir, registered, vfsList, fileP>>

(***************************************************************************)
(* retry reached 0: the loop ends without a further xOpen.                 *)
(***************************************************************************)
vfsmirrorOpenRetryExhausted ==
    /\ pc = "open_retry"
    /\ ~RetryGuard(loc.retry)
    /\ OpenResult(p, loc)
    /\ hist' = [ hist EXCEPT !.replicaFailed = TRUE ]
    /\ UNCHANGED <<env, ctx, zSlaveDir, registered, vfsList, p, fileP, fileR>>


(***************************************************************************)
(* A backend invocation made by the shim: side h (0 for pReal[0] or the    *)
(* primary path, 1 for pReal[1] or the replica path), method, path         *)
(* argument, integer arguments and the status it returned.                 *)
(***************************************************************************)
Call(h, op, path, args, rc) ==
    [ h |-> h, op |-> op, path |-> path, args |-> args, rc |-> rc ]

(***************************************************************************)
(* "if (p->pReal[1])": the replica slot of the handle is set.              *)
(***************************************************************************)
HasReplica_never == FALSE

HasReplica == p.real1.present

(***************************************************************************)
(* p->pReal[1]->pMethods->xOp(...): with pMethods null the call never      *)
(* returns (the process stops in the dispatch).                            *)
(***************************************************************************)
ReplicaRc(rc1) == IF p.real1.methods THEN rc1 ELSE NORETURN

FinishOut(op, args, ret, calls, out) ==
    /\ last' = [ op |-> op, args |-> args, ret |-> ret, calls |-> calls,
                 open |-> NoLoc, out |-> out ]
    /\ pc' = IF \E i \in 1..Len(calls) : calls[i].rc = NORETURN
             THEN "crashed" ELSE "idle"

Finish(op, args, ret, calls) == FinishOut(op, args, ret, calls, <<>>)

(***************************************************************************)
(* The backend's xWrite on a file holding content f: on SQLITE_OK the      *)
(* iAmt bytes of zBuf are at iOfst (a gap after the old end reads as 0);   *)
(* a failing write has stored only the first n bytes.                      *)
(***************************************************************************)
Overlay(f, zBuf, iOfst) ==
    LET newLen == IF Len(f) > iOfst + Len(zBuf) THEN Len(f)
                  ELSE iOfst + Len(zBuf)
    IN [ i \in 1..newLen |->
           IF i > iOfst /\ i <= iOfst + Len(zBuf) THEN zBuf[i - iOfst]
           ELSE IF i <= Len(f) THEN f[i] ELSE 0 ]

xWrite(f, zBuf, iOfst, rc, n) ==
    IF rc = SQLITE_OK THEN Overlay(f, zBuf, iOfst)
    ELSE IF n = 0 THEN f
    ELSE Overlay(f, SubSeq(zBuf, 1, n), iOfst)

(***************************************************************************)
(* The backend's xTruncate: on SQLITE_OK the file has exactly size bytes;  *)
(* a failing truncate leaves the file as it was.                           *)
(***************************************************************************)
xTruncate(f, size, rc) ==
    IF rc = SQLITE_OK
    THEN [ i \in 1..size |-> IF i <= Len(f) THEN f[i] ELSE 0 ]
    ELSE f

(***************************************************************************)
(* vfsmirrorWrite                                                          *)
(***************************************************************************)
WriteReplicaOfst_shifted(iOfst) == iOfst + 1

WriteReplicaOfst(iOfst) == iOfst

vfsmirrorWrite(zBuf, iOfst, rc, rc1, n0, n1) ==
    /\ Idle
    /\ hState = "open"
    /\ rc = SQLITE_OK => n0 = 0
    /\ (rc1 = SQLITE_OK \/ ~HasReplica) => n1 = 0
    /\ LET args == <<Len(zBuf), iOfst>> \o zBuf
           args1 == <<Len(zBuf), WriteReplicaOfst(iOfst)>> \o zBuf
           r1 == ReplicaRc(rc1)
           c0 == Call(0, "xWrite", <<>>, args, rc)
           c1 == Call(1, "xWrite", <<>>, args1, r1)
       IN /\ fileP' = xWrite(fileP, zBuf, iOfst, rc, n0)
          /\ fileR' = IF HasReplica /\ r1 # NORETURN
                      THEN xWrite(fileR, zBuf, WriteReplicaOfst(iOfst), rc1, n1)
                      ELSE fileR
          /\ IF HasReplica
             THEN /\ Finish("xWrite", args, RETURN_CODE(rc, r1), <<c0, c1>>)
                  /\ hist' = [ hist EXCEPT
                                 !.allOK = @ /\ RETURN_CODE(rc, r1) = SQLITE_OK ]
             ELSE /\ Finish("xWrite", args, RETURN_CODE(rc, SQLITE_OK), <<c0>>)
                  /\ hist' = hist
    /\ UNCHANGED <<env, ctx, zSlaveDir, registered, vfsList, hState, p, loc>>

(***************************************************************************)
(* vfsmirrorWrite entered by several execution contexts.  The function     *)
(* takes no lock: between its xWrite on pReal[0] and its xWrite on         *)
(* pReal[1] another context may run its own.  Context t writes the byte t  *)
(* at offset 0; both backend writes return SQLITE_OK.                      *)
(***************************************************************************)
ContextData_sameBytes(t) == <<1>>

ContextData(t) == <<t>>

ContextWritePrimary(t) ==
    /\ Idle
    /\ hState = "open"
    /\ HasReplica /\ p.real1.opened
    /\ ctx.at[t] = "out"
    /\ fileP' = xWrite(fileP, ContextData(t), 0, SQLITE_OK, 0)
    /\ ctx' = [ ctx EXCEPT
                  !.at[t] = "between",
                  !.lastP = t,
                  !.concurrent = @ \/ \E u \in Contexts : ctx.at[u] = "between" ]
    /\ UNCHANGED <<env, zSlaveDir, registered, vfsList, hState, pc, p, loc,
                   fileR, hist, last>>

ContextWriteReplica_skipped(t) ==
    /\ ctx.at[t] = "between"
    /\ ctx' = [ ctx EXCEPT !.at[t] = "out", !.lastR = t ]
    /\ last' = [ NoLast EXCEPT !.op = "xWrite" ]
    /\ UNCHANGED <<env, zSlaveDir, registered, vfsList, hState, pc, p, loc,
                   fileP, fileR, hist>>

ContextWriteReplica(t) ==
    /\ ctx.at[t] = "between"
    /\ LET zBuf == ContextData(t)
           args == <<Len(zBuf), 0>> \o zBuf
           c0 == Call(0, "xWrite", <<>>, args, SQLITE_OK)
           c1 == Call(1, "xWrite", <<>>, args, SQLITE_OK)
       IN /\ fileR' = xWrite(fileR, zBuf, WriteReplicaOfst(0), SQLITE_OK, 0)
          /\ last' = [ op |-> "xWrite", args |-> args,
                       ret |-> RETURN_CODE(SQLITE_OK, SQLITE_OK),
                       calls |-> <<c0, c1>>, open |-> NoLoc, out |-> <<>> ]
    /\ ctx' = [ ctx EXCEPT !.at[t] = "out", !.lastR = t ]
    /\ UNCHANGED <<env, zSlaveDir, registered, vfsList, hState, pc, p, loc,
                   fileP, hist>>

(***************************************************************************)
(* vfsmirrorTruncate                                                       *)
(***************************************************************************)
vfsmirrorTruncate(size, rc, rc1) ==
    /\ Idle
    /\ hState = "open"
    /\ LET args == <<size>>
           r1 == ReplicaRc(rc1)
           c0 == Call(0, "xTruncate", <<>>, args, rc)
           c1 == Call(1, "xTruncate", <<>>, args, r1)
       IN /\ fileP' = xTruncate(fileP, size, rc)
          /\ fileR' = IF HasReplica /\ r1 # NORETURN
                      THEN xTruncate(fileR, size, rc1)
                      ELSE fileR
          /\ IF HasReplica
             THEN /\ Finish("xTruncate", args, RETURN_CODE(rc, r1), <<c0, c1>>)
                  /\ hist' = [ hist EXCEPT
                                 !.allOK = @ /\ RETURN_CODE(rc, r1) = SQLITE_OK ]
             ELSE /\ Finish("xTruncate", args, RETURN_CODE(rc, SQLITE_OK), <<c0>>)
                  /\ hist' = hist
    /\ UNCHANGED <<env, ctx, zSlaveDir, registered, vfsList, hState, p, loc>>

(***************************************************************************)
(* vfsmirrorSync                                                           *)
(***************************************************************************)
SyncFlags == {2, 3}

vfsmirrorSync(flags, rc, rc1) ==
    /\ Idle
    /\ hState = "open"
    /\ LET args == <<flags>>
           r1 == ReplicaRc(rc1)
           c0 == Call(0, "xSync", <<>>, args, rc)
           c1 == Call(1, "xSync", <<>>, args, r1)
       IN IF HasReplica
          THEN Finish("xSync", args, RETURN_CODE(rc, r1), <<c0, c1>>)
          ELSE Finish("xSync", args, RETURN_CODE(rc, SQLITE_OK), <<c0>>)
    /\ UNCHANGED <<env, ctx, zSlaveDir, registered, vfsList, hState, p, loc, fileP, fileR, hist>>

(***************************************************************************)
(* vfsmirrorFileControl: the dual dispatch and the reconciled return.      *)
(* Both backend calls are given the caller's pArg (null before the call);  *)
(* a backend's xFileControl that returns SQLITE_OK for the VFSNAME         *)
(* operation leaves its VFS name there.  After the calls the shim puts     *)
(* "vfsmirror.<zVfsName>/<*pArg>" there when the operation is VFSNAME and  *)
(* the primary call returned SQLITE_OK.                                    *)
(***************************************************************************)
SQLITE_FCNTL_VFSNAME == 12

FcntlOps == {5, SQLITE_FCNTL_VFSNAME}

pInfo_zVfsName ==
    LET i == CHOOSE i \in 1..Len(vfsList) :
                /\ vfsList[i].shim
                /\ \A j \in 1..(i - 1) : ~vfsList[j].shim
    IN vfsList[i].zName

xFileControl(pArg, op, rc, vfs) ==
    IF op = SQLITE_FCNTL_VFSNAME /\ rc = SQLITE_OK THEN <<vfs>> ELSE pArg

VfsNameRewritten_onCombined(op, rc, rc1) ==
    op = SQLITE_FCNTL_VFSNAME /\ RETURN_CODE(rc, rc1) = SQLITE_OK

VfsNameRewritten(op, rc, rc1) ==
    op = SQLITE_FCNTL_VFSNAME /\ rc = SQLITE_OK

vfsmirrorFileControl(op, rc, rc1) ==
    /\ Idle
    /\ hState = "open"
    /\ LET args == <<op>>
           r1 == ReplicaRc(rc1)
           c0 == Call(0, "xFileControl", <<>>, args, rc)
           c1 == Call(1, "xFileControl", <<>>, args, r1)
           pArg0 == xFileControl(<<>>, op, rc, p.real0.vfs)
           pArg1 == IF HasReplica
                    THEN xFileControl(pArg0, op, r1, p.real1.vfs)
                    ELSE pArg0
           out == IF VfsNameRewritten(op, rc, IF HasReplica THEN r1 ELSE SQLITE_OK)
                  THEN <<"vfsmirror.", pInfo_zVfsName, "/">> \o pArg1
                  ELSE pArg1
       IN IF HasReplica
          THEN FinishOut("xFileControl", args, RETURN_CODE(rc, r1),
                         <<c0, c1>>, out)
          ELSE FinishOut("xFileControl", args, RETURN_CODE(rc, SQLITE_OK),
                         <<c0>>, out)
    /\ UNCHANGED <<env, ctx, zSlaveDir, registered, vfsList, hState, p, loc, fileP, fileR, hist>>


(***************************************************************************)
(* The operations that go to pReal[0] only and return its result.          *)
(***************************************************************************)
PrimaryOnly(op, args, rc) ==
    /\ Finish(op, args, rc, << Call(0, op, <<>>, args, rc) >>)
    /\ UNCHANGED <<env, ctx, zSlaveDir, registered, vfsList, hState, p, loc, fileP, fileR, hist>>

LockLevels == {1, 4}
SectorSizes == {"512", "4096"}
DevChars == {"0x0", "0x800"}

vfsmirrorRead_alsoReplica(iAmt, iOfst, rc) ==
    /\ Idle
    /\ hState = "open"
    /\ Finish("xRead", <<iAmt, iOfst>>, rc,
              << Call(0, "xRead", <<>>, <<iAmt, iOfst>>, rc) >> \o
              (IF HasReplica
               THEN << Call(1, "xRead", <<>>, <<iAmt, iOfst>>, ReplicaRc(rc)) >>
               ELSE <<>>))
    /\ UNCHANGED <<env, ctx, zSlaveDir, registered, vfsList, hState, p, loc, fileP, fileR, hist>>

vfsmirrorRead(iAmt, iOfst, rc) ==
    /\ Idle
    /\ hState = "open"
    /\ PrimaryOnly("xRead", <<iAmt, iOfst>>, rc)

vfsmirrorFileSize(rc) ==
    /\ Idle
    /\ hState = "open"
    /\ PrimaryOnly("xFileSize", <<>>, rc)

vfsmirrorLock(eLock, rc) ==
    /\ Idle
    /\ hState = "open"
    /\ PrimaryOnly("xLock", <<eLock>>, rc)

vfsmirrorUnlock(eLock, rc) ==
    /\ Idle
    /\ hState = "open"
    /\ PrimaryOnly("xUnlock", <<eLock>>, rc)

vfsmirrorCheckReservedLock(rc) ==
    /\ Idle
    /\ hState = "open"
    /\ PrimaryOnly("xCheckReservedLock", <<>>, rc)

vfsmirrorSectorSize(rc) ==
    /\ Idle
    /\ hState = "open"
    /\ PrimaryOnly("xSectorSize", <<>>, rc)

vfsmirrorDeviceCharacteristics(rc) ==
    /\ Idle
    /\ hState = "open"
    /\ PrimaryOnly("xDeviceCharacteristics", <<>>, rc)

(***************************************************************************)
(* The shared-memory methods are in the shim's table only when the         *)
(* backend's table has them, so the engine can call only those.            *)
(***************************************************************************)
vfsmirrorShmLock(ofst, rc) ==
    /\ Idle
    /\ hState = "open"
    /\ "xShmLock" \in p.shm
    /\ PrimaryOnly("xShmLock", <<ofst>>, rc)

vfsmirrorShmMap(iRegion, rc) ==
    /\ Idle
    /\ hState = "open"
    /\ "xShmMap" \in p.shm
    /\ PrimaryOnly("xShmMap", <<iRegion>>, rc)

vfsmirrorShmBarrier ==
    /\ Idle
    /\ hState = "open"
    /\ "xShmBarrier" \in p.shm
    /\ PrimaryOnly("xShmBarrier", <<>>, "void")

vfsmirrorShmUnmap(delFlag, rc) ==
    /\ Idle
    /\ hState = "open"
    /\ "xShmUnmap" \in p.shm
    /\ PrimaryOnly("xShmUnmap", <<delFlag>>, rc)

(***************************************************************************)
(* vfsmirrorClose: xClose on pReal[0], then on pReal[1] if set; the        *)
(* shim's method table is freed and base.pMethods cleared only when the    *)
(* primary close returned SQLITE_OK; the engine then releases the handle   *)
(* (p is NoFile again).  After a failing primary close the table is still  *)
(* attached and the engine may call xClose again.                          *)
(***************************************************************************)
MaxClose == 2

vfsmirrorClose(rc, rc1) ==
    /\ Idle
    /\ hState \in {"open", "failed", "closefail"}
    /\ p.real0.nClose < MaxClose
    /\ LET r1 == ReplicaRc(rc1)
           c0 == Call(0, "xClose", <<>>, <<>>, rc)
           c1 == Call(1, "xClose", <<>>, <<>>, r1)
           crash == HasReplica /\ r1 = NORETURN
           freed == rc = SQLITE_OK /\ ~crash
       IN /\ IF HasReplica
             THEN Finish("xClose", <<>>, RETURN_CODE(rc, r1), <<c0, c1>>)
             ELSE Finish("xClose", <<>>, RETURN_CODE(rc, SQLITE_OK), <<c0>>)
          /\ p' = IF freed
                  THEN NoFile
                  ELSE [ p EXCEPT
                           !.real0.nClose = @ + 1,
                           !.real1.nClose = IF HasReplica THEN @ + 1 ELSE @,
                           !.real1.opened = IF HasReplica /\ ~crash
                                            THEN @ /\ rc1 # SQLITE_OK ELSE @ ]
          /\ hState' = IF crash THEN hState
                       ELSE IF rc = SQLITE_OK THEN "none" ELSE "closefail"
          /\ fileP' = IF freed THEN <<>> ELSE fileP
          /\ fileR' = IF freed THEN <<>> ELSE fileR
    /\ UNCHANGED <<env, ctx, zSlaveDir, registered, vfsList, loc, hist>>

(***************************************************************************)
(* vfsmirrorDelete: xDelete on zPath, then on the replica path computed    *)
(* into tmpPath, whatever the first call returned.  When the replica path  *)
(* was written past the end of tmpPath the call either goes on with it or  *)
(* (smash) never returns.                                                  *)
(***************************************************************************)
DirSyncs == {0, 1}

vfsmirrorDelete_stopOnError(zPath, dirSync, rc, rc1, smash) ==
    /\ Idle
    /\ ShimRegistered
    /\ ~smash
    /\ LET tmpPath == vfsmirrorReplicaPath(zPath, NAME_MAX)
           c0 == Call(0, "xDelete", zPath, <<dirSync>>, rc)
           c1 == Call(1, "xDelete", tmpPath, <<dirSync>>, rc1)
       IN IF rc = SQLITE_OK
          THEN Finish("xDelete", <<dirSync>>, RETURN_CODE(rc, rc1), <<c0, c1>>)
          ELSE Finish("xDelete", <<dirSync>>, rc, <<c0>>)
    /\ UNCHANGED <<env, ctx, zSlaveDir, registered, vfsList, hState, p, loc, fileP, fileR, hist>>

vfsmirrorDelete(zPath, dirSync, rc, rc1, smash) ==
    /\ Idle
    /\ ShimRegistered
    /\ LET tmpPath == vfsmirrorReplicaPath(zPath, NAME_MAX)
           c0 == Call(0, "xDelete", zPath, <<dirSync>>, rc)
           r1 == IF smash THEN NORETURN ELSE rc1
           c1 == Call(1, "xDelete", tmpPath, <<dirSync>>, r1)
       IN /\ smash => Overflows(tmpPath, NAME_MAX)
          /\ Finish("xDelete", <<dirSync>>, RETURN_CODE(rc, r1), <<c0, c1>>)
    /\ UNCHANGED <<env, ctx, zSlaveDir, registered, vfsList, hState, p, loc, fileP, fileR, hist>>


(***************************************************************************)
(* The registry: sqlite3_vfs_find(zVfsName) with a null name gives the     *)
(* default (first) VFS; sqlite3_vfs_register puts the new VFS first when   *)
(* makeDflt is set or the list is empty, second otherwise.                 *)
(***************************************************************************)
MaxVfs == 3

sqlite3_vfs_find(zVfsName) ==
    IF zVfsName = NullName
    THEN (IF Len(vfsList) > 0 THEN 1 ELSE 0)
    ELSE IF \E i \in 1..Len(vfsList) : vfsList[i].zName = zVfsName
         THEN CHOOSE i \in 1..Len(vfsList) :
                /\ vfsList[i].zName = zVfsName
                /\ \A j \in 1..(i - 1) : vfsList[j].zName # zVfsName
         ELSE 0

sqlite3_vfs_register(list, pNew, makeDflt) ==
    IF makeDflt \/ Len(list) = 0
    THEN <<pNew>> \o list
    ELSE <<list[1], pNew>> \o Tail(list)

(***************************************************************************)
(* The methods vfsmirror_register sets in pNew, of those listed above.     *)
(* pNew is zeroed first and pNew->iVersion is pRoot->iVersion.             *)
(***************************************************************************)
ShimMethods(pRoot) ==
    { m \in DlMethods : m \in pRoot.methods }
      \cup TimeMethods
      \cup { m \in {"xGetLastError"} : m \in pRoot.methods }
      \cup (IF pRoot.iVersion >= 2
            THEN { m \in {"xCurrentTimeInt64"} : m \in pRoot.methods }
                   \cup (IF pRoot.iVersion >= 3
                         THEN { m \in SystemCallMethods : m \in pRoot.methods }
                         ELSE {})
            ELSE {})

(***************************************************************************)
(* vfsmirror_register: the status returned and the registry it leaves.     *)
(***************************************************************************)
RegisterResult_alwaysDefault(zTraceName, zOldVfsName, makeDefault, mallocOk) ==
    LET pRoot == sqlite3_vfs_find(zOldVfsName) IN
    IF pRoot = 0
    THEN [ rc |-> "SQLITE_NOTFOUND", list |-> vfsList ]
    ELSE IF ~mallocOk
    THEN [ rc |-> "SQLITE_NOMEM", list |-> vfsList ]
    ELSE [ rc |-> SQLITE_OK,
           list |-> sqlite3_vfs_register(
                      vfsList,
                      [ zName |-> zTraceName, shim |-> TRUE,
                        pRootVfs |-> vfsList[pRoot].zName,
                        iVersion |-> vfsList[pRoot].iVersion,
                        methods |-> ShimMethods(vfsList[pRoot]) ],
                      TRUE) ]

RegisterResult(zTraceName, zOldVfsName, makeDefault, mallocOk) ==
    LET pRoot == sqlite3_vfs_find(zOldVfsName) IN
    IF pRoot = 0
    THEN [ rc |-> "SQLITE_NOTFOUND", list |-> vfsList ]
    ELSE IF ~mallocOk
    THEN [ rc |-> "SQLITE_NOMEM", list |-> vfsList ]
    ELSE [ rc |-> SQLITE_OK,
           list |-> sqlite3_vfs_register(
                      vfsList,
                      [ zName |-> zTraceName, shim |-> TRUE,
                        pRootVfs |-> vfsList[pRoot].zName,
                        iVersion |-> vfsList[pRoot].iVersion,
                        methods |-> ShimMethods(vfsList[pRoot]) ],
                      makeDefault) ]

vfsmirror_register(zTraceName, zOldVfsName, makeDefault, mallocOk) ==
    /\ Idle
    /\ Len(vfsList) < MaxVfs
    /\ LET r == RegisterResult(zTraceName, zOldVfsName, makeDefault, mallocOk)
           found == sqlite3_vfs_find(zOldVfsName) # 0
           c0 == Call(0, "sqlite3_vfs_find", <<>>, <<>>,
                      IF found THEN "FOUND" ELSE "NULL")
           c1 == Call(0, "sqlite3_malloc", <<>>, <<>>,
                      IF mallocOk THEN "ALLOCATED" ELSE "NULL")
       IN /\ vfsList' = r.list
          /\ Finish("vfsmirror_register", <<zOldVfsName, makeDefault>>, r.rc,
                    IF found THEN <<c0, c1>> ELSE <<c0>>)
    /\ UNCHANGED <<env, ctx, zSlaveDir, registered, hState, p, loc, fileP, fileR, hist>>

(***************************************************************************)
(* snprintf(zSlaveDir, NAME_MAX, slave_dir): slave_dir is the FORMAT.      *)
(* Ordinary characters are copied, "%%" gives one "%", and any other       *)
(* conversion specification reads an argument that was never passed        *)
(* (undefined): conv is what it produced.  At most NAME_MAX - 1            *)
(* characters are stored.                                                  *)
(***************************************************************************)
RECURSIVE snprintfOutput(_, _)
snprintfOutput(fmt, conv) ==
    IF fmt = <<>>
    THEN [ out |-> <<>>, crash |-> FALSE ]
    ELSE IF Head(fmt) # "%"
    THEN LET k == IF \E i \in 1..Len(fmt) : fmt[i] = "%"
                  THEN (CHOOSE i \in 1..Len(fmt) :
                          /\ fmt[i] = "%"
                          /\ \A j \in 1..(i - 1) : fmt[j] # "%") - 1
                  ELSE Len(fmt)
             r == snprintfOutput(SubSeq(fmt, k + 1, Len(fmt)), conv)
         IN [ out |-> SubSeq(fmt, 1, k) \o r.out, crash |-> r.crash ]
    ELSE IF Len(fmt) >= 2 /\ fmt[2] = "%"
    THEN LET r == snprintfOutput(SubSeq(fmt, 3, Len(fmt)), conv)
         IN [ out |-> <<"%">> \o r.out, crash |-> r.crash ]
    ELSE IF conv = <<NORETURN>>
    THEN [ out |-> <<>>, crash |-> TRUE ]
    ELSE LET r == snprintfOutput(SubSeq(fmt, 3, Len(fmt)), conv)
         IN [ out |-> conv \o r.out, crash |-> r.crash ]

snprintf(size, fmt, conv) ==
    LET r == snprintfOutput(fmt, conv)
    IN [ out |-> SubSeq(r.out, 1, Min(Len(r.out), size - 1)),
         crash |-> r.crash ]

(***************************************************************************)
(* set_mirror_directory.  The trim loop                                    *)
(*   while (z[converted-1]=='/' || z[converted-1]=='\\' && converted>0)    *)
(* reads z[converted - 1] before it looks at converted; with converted = 0 *)
(* the index is outside the buffer (oob).  converted is strlen(slave_dir): *)
(* when the formatted string is shorter, z[converted - 1] is at or after   *)
(* its terminator, a zero byte of the buffer, and the loop does not run.   *)
(* lowest is the lowest index of zSlaveDir the loop has read (the index of *)
(* its last read).  TrimRead is the record of the loop's reads: the index  *)
(* of the first read, the lowest index read and the final value of         *)
(* converted (-1 when "converted--" ran at 0).                             *)
(***************************************************************************)
RECURSIVE TrimLoop(_, _)
TrimLoop(z, converted) ==
    IF converted = 0
    THEN [ z |-> z, converted |-> 0, oob |-> TRUE, lowest |-> -1 ]
    ELSE IF converted > Len(z)
    THEN [ z |-> z, converted |-> converted, oob |-> FALSE,
           lowest |-> converted - 1 ]
    ELSE IF z[converted] = "/" \/ (z[converted] = "\\" /\ converted > 0)
    THEN TrimLoop(SubSeq(z, 1, converted - 1), converted - 1)
    ELSE [ z |-> z, converted |-> converted, oob |-> FALSE,
           lowest |-> converted - 1 ]

TrimRead(slave_dir, t, decremented, rc) ==
    Call(0, "zSlaveDir[converted-1]", <<>>,
         << Len(slave_dir) - 1, t.lowest,
            IF decremented THEN t.converted - 1 ELSE t.converted >>, rc)

dirExists(dirName) == dirName \in ExistingDirs

(***************************************************************************)
(* "if (registered) return 0;"                                             *)
(***************************************************************************)
RegisteredGuard_never(reg) == FALSE

RegisteredGuard(reg) == reg # 0

set_mirror_directory(slave_dir, conv, oobIsSlash, mallocOk) ==
    /\ Idle
    /\ Len(vfsList) < MaxVfs
    /\ IF RegisteredGuard(registered)
       THEN /\ Finish("set_mirror_directory", <<slave_dir>>, "0", <<>>)
            /\ UNCHANGED <<zSlaveDir, registered, vfsList>>
       ELSE IF Len(slave_dir) >= NAME_MAX
       THEN /\ Finish("set_mirror_directory", <<slave_dir>>, "0", <<>>)
            /\ UNCHANGED <<zSlaveDir, registered, vfsList>>
       ELSE LET f == snprintf(NAME_MAX, slave_dir, conv)
                t == TrimLoop(f.out, Len(slave_dir))
            IN
            IF f.crash
            THEN /\ Finish("set_mirror_directory", <<slave_dir>>, NORETURN,
                           << Call(0, "snprintf", <<>>, <<>>, NORETURN) >>)
                 /\ UNCHANGED <<zSlaveDir, registered, vfsList>>
            ELSE IF t.oob /\ oobIsSlash
            THEN /\ zSlaveDir' = t.z
                 /\ Finish("set_mirror_directory", <<slave_dir>>, NORETURN,
                           << TrimRead(slave_dir, t, TRUE, NORETURN) >>)
                 /\ UNCHANGED <<registered, vfsList>>
            ELSE IF t.converted < 2 \/ ~dirExists(t.z)
            THEN /\ zSlaveDir' = t.z
                 /\ Finish("set_mirror_directory", <<slave_dir>>, "0",
                           << TrimRead(slave_dir, t, FALSE, SQLITE_OK) >>)
                 /\ UNCHANGED <<registered, vfsList>>
            ELSE /\ zSlaveDir' = t.z
                 /\ registered' = 1
                 /\ vfsList' = RegisterResult("trace", NullName, TRUE,
                                              mallocOk).list
                 /\ Finish("set_mirror_directory", <<slave_dir>>, "1",
                           << TrimRead(slave_dir, t, FALSE, SQLITE_OK) >>)
    /\ UNCHANGED <<env, ctx, hState, p, loc, fileP, fileR, hist>>

(***************************************************************************)
(* Next-state relation.  EngineUses(op) says which calls the engine makes  *)
(* in the scenario.                                                        *)
(***************************************************************************)
HandleOps ==
    { "xRead", "xWrite", "xTruncate", "xSync", "xFileSize", "xLock",
      "xUnlock", "xCheckReservedLock", "xFileControl", "xSectorSize",
      "xDeviceCharacteristics", "xShmMap", "xShmLock", "xShmBarrier",
      "xShmUnmap" }

EngineUses(op) ==
    CASE env = "dispatch" ->
           op \in HandleOps \cup {"set_mirror_directory", "xOpen", "xClose"}
      [] env = "data" ->
           op \in {"set_mirror_directory", "xOpen", "xWrite", "xTruncate",
                   "xClose"}
      [] env = "paths" ->
           op \in {"set_mirror_directory", "vfsmirror_register", "xOpen",
                   "xClose", "xDelete"}
      [] env = "config" ->
           op \in {"set_mirror_directory", "vfsmirror_register"}
      [] env = "names" ->
           op \in {"set_mirror_directory", "xOpen", "xClose", "xDelete"}
      [] env = "caps" ->
           op \in {"vfsmirror_register"}
      [] env = "threads" ->
           op \in {"set_mirror_directory", "xOpen", "contexts"}
      [] env = "handles" ->
           op \in {"set_mirror_directory", "xOpen", "xClose", "xDelete"}

Next ==
    \/ \E d \in DirNames, m \in BOOLEAN :
       \E c \in ConversionChoices(d), b \in OutOfBoundsChoices(d) :
         /\ EngineUses("set_mirror_directory")
         /\ set_mirror_directory(d, c, b, m)
    \/ \E n \in {"trace"}, o \in OldVfsNames, d \in MakeDefaults,
          m \in BOOLEAN :
         /\ EngineUses("vfsmirror_register")
         /\ env = "paths" => ~ShimRegistered
         /\ vfsmirror_register(n, o, d, m)
    \/ \E hasName \in BOOLEAN, zName \in PathNames, flags \in OpenFlagSets,
          rc \in Status, m0 \in BOOLEAN, ver \in HandleVersions,
          sub \in ShmSets, o0 \in OutFlagSets, disk \in DiskContents :
         /\ EngineUses("xOpen")
         /\ hasName \/ zName = CHOOSE z \in PathNames : TRUE
         /\ \E smash \in OverflowOutcomes :
              vfsmirrorOpen(hasName, zName, flags, rc, m0, ver, sub, o0, disk,
                            smash)
    \/ \E rc1 \in Errs, m1 \in BOOLEAN : vfsmirrorOpenRetryFail(rc1, m1)
    \/ \E disk \in DiskContents, o1 \in OutFlagSets :
         vfsmirrorOpenRetryOk(disk, o1)
    \/ vfsmirrorOpenRetryExhausted
    \/ \E zBuf \in WriteData, iOfst \in WriteOfsts, rc \in Status,
          rc1 \in Status, n0 \in 0..(MaxAmt - 1), n1 \in 0..(MaxAmt - 1) :
         /\ EngineUses("xWrite")
         /\ iOfst + Len(zBuf) <= MaxSize
         /\ n0 < Len(zBuf) /\ n1 < Len(zBuf)
         /\ vfsmirrorWrite(zBuf, iOfst, rc, rc1, n0, n1)
    \/ \E size \in TruncSizes, rc \in Status, rc1 \in Status :
         /\ EngineUses("xTruncate")
         /\ vfsmirrorTruncate(size, rc, rc1)
    \/ \E flags \in SyncFlags, rc \in Status, rc1 \in Status :
         /\ EngineUses("xSync")
         /\ vfsmirrorSync(flags, rc, rc1)
    \/ \E op \in FcntlOps, rc \in Status, rc1 \in Status :
         /\ EngineUses("xFileControl")
         /\ vfsmirrorFileControl(op, rc, rc1)
    \/ \E iAmt \in {1}, iOfst \in {0}, rc \in Status :
         /\ EngineUses("xRead")
         /\ vfsmirrorRead(iAmt, iOfst, rc)
    \/ \E rc \in Status :
         /\ EngineUses("xFileSize")
         /\ vfsmirrorFileSize(rc)
    \/ \E eLock \in LockLevels, rc \in Status :
         /\ EngineUses("xLock")
         /\ vfsmirrorLock(eLock, rc)
    \/ \E eLock \in LockLevels, rc \in Status :
         /\ EngineUses("xUnlock")
         /\ vfsmirrorUnlock(eLock, rc)
    \/ \E rc \in Status :
         /\ EngineUses("xCheckReservedLock")
         /\ vfsmirrorCheckReservedLock(rc)
    \/ \E rc \in SectorSizes :
         /\ EngineUses("xSectorSize")
         /\ vfsmirrorSectorSize(rc)
    \/ \E rc \in DevChars :
         /\ EngineUses("xDeviceCharacteristics")
         /\ vfsmirrorDeviceCharacteristics(rc)
    \/ \E ofst \in {0}, rc \in Status :
         /\ EngineUses("xShmLock")
         /\ vfsmirrorShmLock(ofst, rc)
    \/ \E iRegion \in {0}, rc \in Status :
         /\ EngineUses("xShmMap")
         /\ vfsmirrorShmMap(iRegion, rc)
    \/ /\ EngineUses("xShmBarrier")
       /\ vfsmirrorShmBarrier
    \/ \E delFlag \in {0, 1}, rc \in Status :
         /\ EngineUses("xShmUnmap")
         /\ vfsmirrorShmUnmap(delFlag, rc)
    \/ \E rc \in CloseStatus, rc1 \in Status :
         /\ EngineUses("xClose")
         /\ vfsmirrorClose(rc, rc1)
    \/ \E zPath \in PathNames, dirSync \in DirSyncs, rc \in Status,
          rc1 \in Status :
         /\ EngineUses("xDelete")
         /\ \E smash \in OverflowOutcomes :
              vfsmirrorDelete(zPath, dirSync, rc, rc1, smash)
    \/ \E t \in Contexts :
         /\ EngineUses("contexts")
         /\ ContextWritePrimary(t)
    \/ \E t \in Contexts : ContextWriteReplica(t)

Spec == Init /\ [][Next]_vars

(***************************************************************************)
(* A call in progress runs on: the thread inside vfsmirrorOpen keeps       *)
(* taking the steps of the retry loop (sqlite3_sleep returns).             *)
(***************************************************************************)
OpenStep ==
    \/ \E rc1 \in Errs, m1 \in BOOLEAN : vfsmirrorOpenRetryFail(rc1, m1)
    \/ \E disk \in DiskContents, o1 \in OutFlagSets :
         vfsmirrorOpenRetryOk(disk, o1)
    \/ vfsmirrorOpenRetryExhausted

FairSpec == Spec /\ WF_vars(OpenStep)


(***************************************************************************)
(*                              PROPERTIES                                 *)
(***************************************************************************)

(***************************************************************************)
(* combine(a, b) as the specification states it: a when a = b, b when a    *)
(* is OK and b is not, a otherwise.                                        *)
(***************************************************************************)
combine(a, b) ==
    CASE a = b -> a
      [] a # b /\ a = "SQLITE_OK" -> b
      [] OTHER -> a

Returned == last.ret # NORETURN

DualOps == {"xWrite", "xTruncate", "xSync", "xFileControl", "xClose", "xDelete"}
MutatingOps == {"xWrite", "xTruncate", "xSync", "xFileControl"}
PrimaryOnlyOps ==
    { "xRead", "xFileSize", "xLock", "xUnlock", "xCheckReservedLock",
      "xSectorSize", "xDeviceCharacteristics", "xShmMap", "xShmLock",
      "xShmBarrier", "xShmUnmap" }

Eligible(flags) == "MAIN_DB" \in flags \/ "MAIN_JOURNAL" \in flags

(***************************************************************************)
(* C1: whenever the shim has reconciled a primary status a and a replica   *)
(* status b, the status it returned is a when a = b, b when a is OK and b  *)
(* is not OK, and a otherwise.                                             *)
(***************************************************************************)
C1_Combine ==
    /\ (last.op \in DualOps /\ Len(last.calls) = 2 /\ Returned) =>
         LET a == last.calls[1].rc
             b == last.calls[2].rc
         IN /\ a = b => last.ret = a
            /\ (a = "SQLITE_OK" /\ b # "SQLITE_OK") => last.ret = b
            /\ (a # "SQLITE_OK" /\ a # b) => last.ret = a
    /\ (last.op = "xOpen" /\ Returned) =>
         LET a == last.open.rc
             b == last.open.rc1
         IN /\ a = b => last.ret = a
            /\ (a = "SQLITE_OK" /\ b # "SQLITE_OK") => last.ret = b
            /\ (a # "SQLITE_OK" /\ a # b) => last.ret = a

C1_Witness ==
    /\ last.op \in DualOps
    /\ Len(last.calls) = 2
    /\ last.calls[1].rc = "SQLITE_IOERR"
    /\ last.calls[2].rc = "SQLITE_FULL"
    /\ last.ret = "SQLITE_IOERR"

(***************************************************************************)
(* C2: after write, truncate, sync or fileControl on an open handle the    *)
(* backend was invoked once on the primary with the call's arguments and,  *)
(* exactly when the replica slot is set, once on the replica with the same *)
(* arguments, whatever the primary returned; the call returned the         *)
(* reconciliation of the two statuses, the primary's when there is no      *)
(* replica.                                                                *)
(***************************************************************************)
C2_DualDispatch ==
    (last.op \in MutatingOps) =>
       /\ Len(last.calls) = IF p.real1.present THEN 2 ELSE 1
       /\ last.calls[1] =
            Call(0, last.op, <<>>, last.args, last.calls[1].rc)
       /\ p.real1.present =>
            last.calls[2] =
              Call(1, last.op, <<>>, last.args, last.calls[2].rc)
       /\ last.ret = IF p.real1.present
                     THEN combine(last.calls[1].rc, last.calls[2].rc)
                     ELSE last.calls[1].rc

C2_Witness ==
    /\ last.op = "xSync"
    /\ Len(last.calls) = 2
    /\ last.calls[1].rc = "SQLITE_IOERR"
    /\ last.calls[2].rc = "SQLITE_OK"
    /\ last.calls[2].h = 1
    /\ last.ret = "SQLITE_IOERR"

(***************************************************************************)
(* C3: read, fileSize, lock, unlock, checkReservedLock, sectorSize,        *)
(* deviceCharacteristics and the shared-memory methods invoke the backend  *)
(* on the primary handle only and return its result unchanged.             *)
(***************************************************************************)
C3_PrimaryOnly ==
    (last.op \in PrimaryOnlyOps) =>
       last.calls = << Call(0, last.op, <<>>, last.args, last.ret) >>

C3_Witness ==
    /\ last.op = "xRead"
    /\ hState = "open"
    /\ p.real1.present
    /\ p.real1.opened
    /\ Len(last.calls) = 1


(***************************************************************************)
(* C4 as stated: when open has returned, a replica open was attempted if   *)
(* and only if the open-flags include the main-database or main-journal    *)
(* flag, and other requests leave no replica handle.                       *)
(***************************************************************************)
C4_AttemptIffEligible ==
    (last.op = "xOpen" /\ Returned) =>
       /\ (last.open.nAttempts > 0) <=> Eligible(p.flags)
       /\ ~Eligible(p.flags) => ~p.real1.present

(***************************************************************************)
(* C4 amended: when open has returned, a replica open was attempted if and *)
(* only if the open-flags include the main-database or main-journal flag,  *)
(* a path was supplied and the primary open returned OK; requests of every *)
(* other kind make no attempt and leave no replica handle.                 *)
(***************************************************************************)
C4_AttemptIffEligibleNamedOk ==
    (last.op = "xOpen" /\ Returned) =>
       /\ (last.open.nAttempts > 0) <=>
            (Eligible(p.flags) /\ p.hasName /\ last.open.rc = "SQLITE_OK")
       /\ ~Eligible(p.flags) =>
            (last.open.nAttempts = 0 /\ ~p.real1.present)

C4_Witness ==
    /\ last.op = "xOpen"
    /\ Returned
    /\ "MAIN_JOURNAL" \in p.flags
    /\ last.open.nAttempts > 0
    /\ p.real1.opened

(***************************************************************************)
(* C5: an open whose primary open returned OK and whose 10 replica-open    *)
(* attempts all failed returns OK.                                         *)
(***************************************************************************)
C5_OpenSucceedsWithoutReplica ==
    ( /\ last.op = "xOpen"
      /\ Returned
      /\ last.open.rc = "SQLITE_OK"
      /\ last.open.nAttempts = 10
      /\ \A i \in 1..Len(last.open.attempts) : ~last.open.attempts[i] )
    => last.ret = "SQLITE_OK"

(***************************************************************************)
(* C6: once open has returned, the replica slot of the handle is set only  *)
(* if the request was mirror-eligible and a replica open succeeded; it is  *)
(* empty after 10 failed attempts.                                         *)
(***************************************************************************)
C6_SlotOnlyIfReplicaOpened ==
    (pc = "idle" /\ hState # "none") =>
       /\ p.real1.present => (Eligible(p.flags) /\ hist.replicaOpened)
       /\ hist.replicaFailed => ~p.real1.present

(***************************************************************************)
(* C7: on a handle whose replica-open attempts all failed, write,          *)
(* truncate, sync, fileControl and close invoke the backend on the primary *)
(* only and return the primary's status.                                   *)
(***************************************************************************)
C7_PrimaryOnlyAfterFailedReplica ==
    (hist.replicaFailed /\ last.op \in MutatingOps \cup {"xClose"}) =>
       /\ \A i \in 1..Len(last.calls) : last.calls[i].h = 0
       /\ last.ret = last.calls[1].rc

(***************************************************************************)
(* C8: within one open call at most 10 replica opens are attempted, none   *)
(* after one that succeeded, at most 10 sleeps are made, and the call      *)
(* returns.                                                                *)
(***************************************************************************)
C8_Counts(l) ==
    /\ l.nAttempts <= 10
    /\ l.nSleeps <= 10
    /\ Len(l.attempts) = l.nAttempts
    /\ \A i \in 1..(Len(l.attempts) - 1) : ~l.attempts[i]

C8_RetryBounded ==
    /\ [](C8_Counts(loc) /\ C8_Counts(last.open))
    /\ (pc = "open_retry") ~> (pc = "idle" /\ last.op = "xOpen" /\ Returned)

C8_Witness ==
    /\ last.op = "xOpen"
    /\ Returned
    /\ last.open.nAttempts = 10
    /\ last.open.nSleeps = 10

(***************************************************************************)
(* C9: on a handle with both files open, a write that returned OK on both  *)
(* sides leaves its bytes in the replica file at its offset; and in        *)
(* single-threaded use (no two calls ever in progress together), while the *)
(* files were equal at open and every write and truncate returned OK, the  *)
(* replica file equals the primary file.                                   *)
(***************************************************************************)
C9_WriteMirrored ==
    /\ ( /\ last.op = "xWrite"
         /\ Len(last.calls) = 2
         /\ last.calls[1].rc = "SQLITE_OK"
         /\ last.calls[2].rc = "SQLITE_OK" ) =>
         LET iAmt == last.args[1]
             iOfst == last.args[2]
         IN /\ Len(fileR) >= iOfst + iAmt
            /\ SubSeq(fileR, iOfst + 1, iOfst + iAmt) =
                 SubSeq(last.args, 3, 2 + iAmt)
    /\ ( /\ hState = "open"
         /\ pc = "idle"
         /\ ~ctx.concurrent
         /\ \A t \in Contexts : ctx.at[t] = "out"
         /\ hist.replicaOpened
         /\ hist.eqAtOpen
         /\ hist.allOK ) => fileR = fileP

C9_Witness ==
    /\ last.op = "xWrite"
    /\ Len(last.calls) = 2
    /\ last.ret = "SQLITE_OK"
    /\ last.args[2] = 1
    /\ hist.eqAtOpen
    /\ hist.allOK
    /\ fileR = fileP
    /\ Len(fileR) >= 2

(***************************************************************************)
(* C10: every delete invokes the backend's delete on the given path and    *)
(* then on the replica path of the same file name, with the same syncDir,  *)
(* whatever the first call returned and whether or not a mirrored handle   *)
(* exists, and returns the reconciliation of the two statuses.             *)
(***************************************************************************)
C10_DeleteDual ==
    (last.op = "xDelete") =>
       /\ Len(last.calls) = 2
       /\ last.calls[1].h = 0
       /\ last.calls[2].h = 1
       /\ \A i \in 1..2 : /\ last.calls[i].op = "xDelete"
                          /\ last.calls[i].args = last.args
       /\ fileTail(last.calls[2].path) = fileTail(last.calls[1].path)
       /\ last.ret = combine(last.calls[1].rc, last.calls[2].rc)

C10_Witness ==
    /\ last.op = "xDelete"
    /\ Len(last.calls) = 2
    /\ last.calls[1].rc = "SQLITE_IOERR"
    /\ last.calls[2].rc = "SQLITE_OK"
    /\ ~p.real1.present
    /\ hState = "none"

(***************************************************************************)
(* The base name of a path as the specification defines it: the part       *)
(* after the last path separator (the whole path when it has none).        *)
(***************************************************************************)
IsSeparator(c) == c = "/" \/ c = "\\"

BaseName(z) ==
    IF \E i \in 1..Len(z) : IsSeparator(z[i])
    THEN LET k == CHOOSE i \in 1..Len(z) :
                    /\ IsSeparator(z[i])
                    /\ \A j \in (i + 1)..Len(z) : ~IsSeparator(z[j])
         IN SubSeq(z, k + 1, Len(z))
    ELSE z

(***************************************************************************)
(* The primary path and the replica path of the last call that resolved    *)
(* a replica path: a delete, or an open that set the replica slot.         *)
(***************************************************************************)
ResolvedReplicaPath ==
    \/ last.op = "xDelete"
    \/ last.op = "xOpen" /\ Returned /\ p.real1.present

PrimaryPathUsed ==
    IF last.op = "xDelete" THEN last.calls[1].path ELSE p.zName

ReplicaPathUsed ==
    IF last.op = "xDelete" THEN last.calls[2].path ELSE p.zFname2

(***************************************************************************)
(* C11: the replica path resolved for a primary path is the one resolved   *)
(* for every other primary path with the same base name, and what follows  *)
(* the replica directory and its one separator character in it is that     *)
(* base name alone, nothing of the directory part of the primary path.     *)
(***************************************************************************)
C11_SameBaseNameSameReplicaPath ==
    ResolvedReplicaPath =>
       /\ \A q \in PathNames :
            BaseName(q) = BaseName(PrimaryPathUsed) =>
               vfsmirrorReplicaPath(q, NAME_MAX) = ReplicaPathUsed
       /\ SubSeq(ReplicaPathUsed, Len(zSlaveDir) + 2, Len(ReplicaPathUsed))
            = BaseName(PrimaryPathUsed)

(***************************************************************************)
(* C12: the replica path used by open and by delete is the configured      *)
(* replica directory, one forward slash, and the base name of the primary  *)
(* path.                                                                   *)
(***************************************************************************)
C12_ReplicaPathLayout ==
    (ResolvedReplicaPath /\ registered = 1) =>
       ReplicaPathUsed = zSlaveDir \o <<"/">> \o BaseName(PrimaryPathUsed)

(***************************************************************************)
(* C13: a close has invoked the backend's close on the primary first and   *)
(* then, exactly when the replica slot was set, on the replica; it has     *)
(* returned the reconciliation of the two statuses; and the handle's       *)
(* method table is gone (the handle is released) exactly when the primary  *)
(* close returned OK, whatever the replica's close did.                    *)
(***************************************************************************)
C13_CloseBothTeardownOnPrimary ==
    (last.op = "xClose") =>
       /\ Len(last.calls) =
            IF hist.replicaOpened \/ hist.replicaFailed THEN 2 ELSE 1
       /\ \A i \in 1..Len(last.calls) :
            /\ last.calls[i].h = i - 1
            /\ last.calls[i].op = "xClose"
       /\ Returned
       /\ last.ret = combine(last.calls[1].rc,
                             IF Len(last.calls) = 2 THEN last.calls[2].rc
                             ELSE "SQLITE_OK")
       /\ (hState = "none" /\ ~p.pMethods) <=> (last.calls[1].rc = "SQLITE_OK")

(***************************************************************************)
(* A path with all its trailing separators removed.                        *)
(***************************************************************************)
RECURSIVE StripTrailingSeparators(_)
StripTrailingSeparators(z) ==
    IF Len(z) > 0 /\ IsSeparator(z[Len(z)])
    THEN StripTrailingSeparators(SubSeq(z, 1, Len(z) - 1))
    ELSE z

(***************************************************************************)
(* C14: once a call of set_mirror_directory has been accepted (the         *)
(* configured flag is set), every later call returns 0 whatever its        *)
(* argument and leaves the stored directory, the flag and the registry     *)
(* as they were.                                                           *)
(***************************************************************************)
C14_OneShot ==
    [][ (registered = 1 /\ last'.op = "set_mirror_directory") =>
           /\ last'.ret = "0"
           /\ zSlaveDir' = zSlaveDir
           /\ registered' = registered
           /\ vfsList' = vfsList ]_vars

C14_Witness ==
    /\ last.op = "set_mirror_directory"
    /\ last.ret = "0"
    /\ registered = 1
    /\ StripTrailingSeparators(last.args[1]) \in ExistingDirs
    /\ Len(StripTrailingSeparators(last.args[1])) >= 2
    /\ StripTrailingSeparators(last.args[1]) # zSlaveDir

(***************************************************************************)
(* C15: a call of set_mirror_directory is accepted exactly when no earlier *)
(* call was accepted, the path is shorter than the buffer, and the path    *)
(* without its trailing separators has at least 2 characters and names an  *)
(* existing directory; when it is accepted the stored directory is the     *)
(* path without its trailing separators and the configured flag is set.    *)
(***************************************************************************)
C15_AcceptedIffValid ==
    [][ (last'.op = "set_mirror_directory") =>
           LET path == last'.args[1]
               trimmed == StripTrailingSeparators(path)
           IN /\ (last'.ret = "1") <=>
                    ( /\ registered = 0
                      /\ Len(path) < NAME_MAX
                      /\ Len(trimmed) >= 2
                      /\ trimmed \in ExistingDirs )
              /\ (last'.ret = "1") =>
                    (zSlaveDir' = trimmed /\ registered' = 1) ]_vars

(***************************************************************************)
(* C16: whenever set_mirror_directory returns accepted, the call has       *)
(* registered the shim "trace" and it is the default (first) backend of    *)
(* the registry.                                                           *)
(***************************************************************************)
C16_AcceptedMeansRegistered ==
    [][ (last'.op = "set_mirror_directory" /\ last'.ret = "1") =>
           /\ Len(vfsList') = Len(vfsList) + 1
           /\ vfsList'[1].shim
           /\ vfsList'[1].zName = "trace"
           /\ Tail(vfsList') = vfsList ]_vars

(***************************************************************************)
(* C17: vfsmirror_register returns SQLITE_NOTFOUND when no backend has the *)
(* given name and SQLITE_NOMEM when the allocation fails, and then leaves  *)
(* the registry as it was; otherwise it adds exactly one shim, whose       *)
(* underlying backend is the one that was looked up, and the shim is the   *)
(* default (first) backend exactly when makeDefault is set.                *)
(***************************************************************************)
RemoveAt(list, k) ==
    SubSeq(list, 1, k - 1) \o SubSeq(list, k + 1, Len(list))

C17_Register ==
    [][ (last'.op = "vfsmirror_register") =>
           LET zOldVfsName == last'.args[1]
               makeDefault == last'.args[2]
               exists ==
                   IF zOldVfsName = NullName THEN Len(vfsList) > 0
                   ELSE \E i \in 1..Len(vfsList) :
                          vfsList[i].zName = zOldVfsName
               allocFailed ==
                   \E i \in 1..Len(last'.calls) :
                      /\ last'.calls[i].op = "sqlite3_malloc"
                      /\ last'.calls[i].rc = "NULL"
           IN /\ ~exists =>
                   (last'.ret = "SQLITE_NOTFOUND" /\ vfsList' = vfsList)
              /\ (exists /\ allocFailed) =>
                   (last'.ret = "SQLITE_NOMEM" /\ vfsList' = vfsList)
              /\ (exists /\ ~allocFailed) =>
                   /\ last'.ret = "SQLITE_OK"
                   /\ \E k \in 1..Len(vfsList') :
                        /\ vfsList'[k].shim
                        /\ vfsList'[k].pRootVfs =
                             IF zOldVfsName = NullName
                             THEN vfsList[1].zName ELSE zOldVfsName
                        /\ RemoveAt(vfsList', k) = vfsList
                        /\ (k = 1) <=> makeDefault ]_vars

C17_Witness ==
    /\ last.op = "vfsmirror_register"
    /\ last.ret = "SQLITE_OK"
    /\ last.args = <<"unix", FALSE>>
    /\ Len(vfsList) = 2
    /\ vfsList[2].shim
    /\ vfsList[2].pRootVfs = "unix"
    /\ ~vfsList[1].shim

(***************************************************************************)
(* C18: the shim that a registration adds has each of the optional         *)
(* methods (the dl methods, randomness, sleep, currentTime,                *)
(* currentTimeInt64, getLastError and the system-call methods) exactly     *)
(* when the backend it was registered over has it.                         *)
(***************************************************************************)
OptionalMethods == MethodsOfVersion(3)

C18_MethodsIffBackend ==
    [][ (Len(vfsList') = Len(vfsList) + 1) =>
           \E k \in 1..Len(vfsList') :
              /\ RemoveAt(vfsList', k) = vfsList
              /\ vfsList'[k].shim
              /\ \E r \in 1..Len(vfsList) :
                   /\ vfsList[r].zName = vfsList'[k].pRootVfs
                   /\ \A j \in 1..(r - 1) :
                        vfsList[j].zName # vfsList'[k].pRootVfs
                   /\ \A m \in OptionalMethods :
                        (m \in vfsList'[k].methods) <=>
                           (m \in vfsList[r].methods) ]_vars

(***************************************************************************)
(* C19: an open whose primary open failed, and an open without a path,     *)
(* has made no replica open attempt, has left the replica slot empty and   *)
(* has returned the primary's status, whatever the flags.                  *)
(***************************************************************************)
C19_NoReplicaWithoutPrimaryOrPath ==
    ( /\ last.op = "xOpen"
      /\ Returned
      /\ (last.open.rc # "SQLITE_OK" \/ ~p.hasName) ) =>
       /\ last.open.nAttempts = 0
       /\ last.open.attempts = <<>>
       /\ ~p.real1.present
       /\ last.ret = last.open.rc

C19_Witness ==
    /\ last.op = "xOpen"
    /\ last.open.rc = "SQLITE_IOERR"
    /\ last.ret = "SQLITE_IOERR"
    /\ p.hasName
    /\ Eligible(p.flags)
    /\ last.open.nAttempts = 0
    /\ ~p.real1.present

(***************************************************************************)
(* C20: whenever no call is in progress and the replica slot of the handle *)
(* is set, the replica handle was opened, through the backend the primary  *)
(* was opened through and with the flags the primary was opened with.      *)
(***************************************************************************)
C20_ReplicaOpenedLikePrimary ==
    (pc = "idle" /\ p.real1.present) =>
       /\ hist.replicaOpened
       /\ p.real1.vfs = p.real0.vfs
       /\ p.real1.flags = p.real0.flags

(***************************************************************************)
(* The region the contexts write (offset 0, one byte) in a file.           *)
(***************************************************************************)
Region(f) == SubSeq(f, 1, Min(Len(f), 1))

NoWriteInFlight == \A t \in Contexts : ctx.at[t] = "out"

(***************************************************************************)
(* C21: with several contexts inside write on one mirrored handle, the     *)
(* primary holds in the region the bytes of the call that wrote the        *)
(* primary last and the replica the bytes of the call that wrote the       *)
(* replica last, and every call that returned made its two writes (primary *)
(* then replica); the witness is the interleaving after which the two      *)
(* differ: the last primary write and the last replica write belong to     *)
(* different calls.                                                        *)
(***************************************************************************)
C21_LastWriterOnEachSide ==
    /\ (ctx.lastP # 0) => Region(fileP) = ContextData(ctx.lastP)
    /\ (ctx.lastR # 0) => Region(fileR) = ContextData(ctx.lastR)
    /\ (ctx.lastR # 0 /\ last.op = "xWrite") =>
         /\ last.ret = SQLITE_OK
         /\ Len(last.calls) = 2
         /\ last.calls[1].h = 0 /\ last.calls[2].h = 1
         /\ SubSeq(last.args, 3, Len(last.args)) = ContextData(ctx.lastR)

C21_Witness ==
    /\ NoWriteInFlight
    /\ ctx.lastP # 0
    /\ ctx.lastR # 0
    /\ ctx.lastP # ctx.lastR
    /\ Region(fileR) # Region(fileP)
    /\ hist.replicaOpened
    /\ hist.eqAtOpen

C23_ReplicaClosedAtMostOnce ==
    [][ ( /\ hState = "closefail"
          /\ HasReplica
          /\ hist.replicaOpened
          /\ ~p.real1.opened
          /\ p'.real0.nClose # p.real0.nClose ) =>
        ( /\ last'.op = "xClose"
          /\ \A i \in 1..Len(last'.calls) : last'.calls[i].h # 1 ) ]_vars

(***************************************************************************)
(* C24: the method table the shim installs on a handle has each shared-    *)
(* memory operation exactly when the table of the backend's primary handle *)
(* provides it, and its interface version is one the backend's table       *)
(* supports (not above the backend's).                                     *)
(***************************************************************************)
C24_TableWithinBackend ==
    p.pMethods =>
       /\ p.shm = p.pSub.shm
       /\ p.iVersion <= p.pSub.iVersion

(***************************************************************************)
(* C29: the output flags a returned open reports are those the primary     *)
(* open wrote; the replica-open attempts have not changed them.            *)
(***************************************************************************)
C29_OutFlagsFromPrimary ==
    (last.op = "xOpen" /\ Returned) =>
       last.out = last.open.primaryOutFlags

(***************************************************************************)
(* C25: a file control that returned has the name in its output argument   *)
(* rewritten to "vfsmirror.<shim's name>/<backend's name>" exactly when    *)
(* the operation is 'report backing VFS name' and the primary call         *)
(* returned OK, whatever the replica call returned; in every other case    *)
(* the output argument is what the backend calls left there.               *)
(***************************************************************************)
C25_VfsNameRewriteIffPrimaryOk ==
    (last.op = "xFileControl" /\ Returned) =>
       LET op == last.args[1]
           rc == last.calls[1].rc
           left == IF op = SQLITE_FCNTL_VFSNAME
                      /\ \E i \in 1..Len(last.calls) : last.calls[i].rc = "SQLITE_OK"
                   THEN <<p.pInfo>> ELSE <<>>
       IN IF op = SQLITE_FCNTL_VFSNAME /\ rc = "SQLITE_OK"
          THEN last.out = <<"vfsmirror.", "trace", "/", p.pInfo>>
          ELSE last.out = left

C25_Witness ==
    /\ last.op = "xFileControl"
    /\ last.args = <<SQLITE_FCNTL_VFSNAME>>
    /\ Len(last.calls) = 2
    /\ last.calls[1].rc = "SQLITE_OK"
    /\ last.calls[2].rc = "SQLITE_IOERR"
    /\ last.ret = "SQLITE_IOERR"
    /\ last.out = <<"vfsmirror.", "trace", "/", "unix">>

(***************************************************************************)
(* C26: in a set_mirror_directory call that reached the trim loop, every   *)
(* read of the directory buffer was at an index from 0 to the buffer's     *)
(* last index, and the length counter did not go below 0.                  *)
(***************************************************************************)
C26_TrimReadsInBounds ==
    ( /\ last.op = "set_mirror_directory"
      /\ Len(last.calls) = 1
      /\ last.calls[1].op = "zSlaveDir[converted-1]" ) =>
       /\ last.calls[1].args[1] \in 0..(NAME_MAX - 1)
       /\ last.calls[1].args[2] \in 0..(NAME_MAX - 1)
       /\ last.calls[1].args[3] >= 0

(***************************************************************************)
(* C28: a set_mirror_directory call that returns false leaves the stored   *)
(* directory and the configured flag as they were before the call.         *)
(***************************************************************************)
C28_FalseLeavesStateUnchanged ==
    [][ (last'.op = "set_mirror_directory" /\ last'.ret = "0") =>
        (zSlaveDir' = zSlaveDir /\ registered' = registered) ]_vars

(***************************************************************************)
(* C27: the replica path resolved by an open or a delete, with its         *)
(* terminator, fits in the NAME_MAX bytes of the buffer it is built in.    *)
(***************************************************************************)
C27_ReplicaPathFitsBuffer ==
    ResolvedReplicaPath => Len(ReplicaPathUsed) + 1 <= NAME_MAX

(***************************************************************************)
(* C30: while a handle opened for a primary path has its replica slot set  *)
(* and the replica directory is the one of the time of the open, a delete  *)
(* of the same primary path that returned has deleted, on the replica      *)
(* side, the very path the open resolved for the replica: taking the base  *)
(* name of the base name (open) gives what taking the base name once       *)
(* (delete) gives.                                                         *)
(***************************************************************************)
C30_DeletePathIsOpenPath ==
    ( /\ last.op = "xDelete"
      /\ pc = "idle"
      /\ hState \in {"open", "failed", "closefail"}
      /\ p.real1.present
      /\ p.hasName
      /\ last.calls[1].path = p.zName
      /\ hist.dirAtOpen = zSlaveDir ) =>
       /\ Len(last.calls) = 2
       /\ last.calls[2].path = p.zFname2
       /\ fileTail(p.zFName) = p.zFName

C30_Witness ==
    /\ last.op = "xDelete"
    /\ hState = "open"
    /\ p.real1.present
    /\ last.calls[1].path = p.zName
    /\ hist.dirAtOpen = zSlaveDir
    /\ Len(p.zFName) < Len(p.zName)
    /\ last.calls[2].path = p.zFname2

=============================================================================
